---- MODULE Spec2Model ----
(***************************************************************************)
(* Diff change classifiers of the repository:                              *)
(*   base      analyze_commit_changes of repo_vul_files.py                 *)
(*   extended  analyze_commit_changes of                                   *)
(*             repo_fix_summary_get_line_class_method.py                   *)
(* Text is a sequence of one-character strings, so that startswith, in,    *)
(* split, strip and int are computed on the characters.  Python's None is  *)
(* the empty tuple and a present value x is <<x>>.  Positions are 1-based: *)
(* position p here is index p-1 in the Python code.                        *)
(***************************************************************************)
EXTENDS Integers, Sequences, FiniteSets, TLC

(* ---------------------------- bounds ----------------------------------- *)
\* longest diff text freely composed of the core lines, in lines
MaxLen == 3
\* longest diff text freely composed of all the lines of Pool
MaxLenAll == 2

(* ------------------------ Python str helpers --------------------------- *)
None == <<>>
Some(x) == <<x>>
Get(o) == o[1]

\* s.startswith(p)
StartsWith(s, p) == Len(s) >= Len(p) /\ SubSeq(s, 1, Len(p)) = p

\* s.find(p) from position k on: the first position of p in s, 0 when absent
RECURSIVE FindFrom(_, _, _)
FindFrom(s, p, k) ==
    IF k + Len(p) - 1 > Len(s) THEN 0
    ELSE IF SubSeq(s, k, k + Len(p) - 1) = p THEN k
    ELSE FindFrom(s, p, k + 1)

\* p in s
Contains(s, p) == FindFrom(s, p, 1) # 0

\* s.split(sep), sep non-empty
RECURSIVE Split(_, _)
Split(s, sep) ==
    LET k == FindFrom(s, sep, 1) IN
    IF k = 0 THEN <<s>>
    ELSE <<SubSeq(s, 1, k - 1)>> \o Split(SubSeq(s, k + Len(sep), Len(s)), sep)

\* sep.join(parts)
RECURSIVE Join(_, _)
Join(parts, sep) ==
    IF Len(parts) = 0 THEN <<>>
    ELSE IF Len(parts) = 1 THEN parts[1]
    ELSE parts[1] \o sep \o Join(Tail(parts), sep)

Whitespace == {" ", "\n", "\t"}

RECURSIVE LStrip(_)
LStrip(s) == IF s # <<>> /\ Head(s) \in Whitespace THEN LStrip(Tail(s)) ELSE s

RECURSIVE RStrip(_)
RStrip(s) ==
    IF s # <<>> /\ s[Len(s)] \in Whitespace THEN RStrip(SubSeq(s, 1, Len(s) - 1)) ELSE s

\* s.strip()
Strip(s) == LStrip(RStrip(s))

Last(seq) == seq[Len(seq)]

\* a split that drops empty pieces
SplitLines_SkipBlank(text) == SelectSeq(Split(text, <<"\n">>), LAMBDA piece : piece # <<>>)

\* text.split("\n")
SplitLines(text) == Split(text, <<"\n">>)

Digits == <<"0", "1", "2", "3", "4", "5", "6", "7", "8", "9">>
IsDigit(c) == \E d \in 1..10 : Digits[d] = c
DigitVal(c) == (CHOOSE d \in 1..10 : Digits[d] = c) - 1

RECURSIVE DigitsVal(_)
DigitsVal(ds) ==
    IF ds = <<>> THEN 0 ELSE 10 * DigitsVal(SubSeq(ds, 1, Len(ds) - 1)) + DigitVal(ds[Len(ds)])

\* int(tok): surrounding whitespace is dropped, an optional sign, then one or
\* more decimal digits; anything else raises ValueError (ok = FALSE)
ParseInt(tok) ==
    LET t == Strip(tok)
        signed == t # <<>> /\ t[1] \in {"+", "-"}
        ds == IF signed THEN Tail(t) ELSE t
        ok == ds # <<>> /\ \A d \in 1..Len(ds) : IsDigit(ds[d])
    IN [ok |-> ok,
        val |-> IF ~ok THEN 0 ELSE IF signed /\ t[1] = "-" THEN 0 - DigitsVal(ds) ELSE DigitsVal(ds)]

Abs(n) == IF n < 0 THEN 0 - n ELSE n

(* --------------------------- diff lines -------------------------------- *)
NL == <<"\n">>

\* the lines diff texts are composed of
Pool == <<
    <<"d","i","f","f"," ","-","-","g","i","t"," ","a","/","f","o","o",".","p","y"," ","b","/","f","o","o",".","p","y">>,
    <<"d","i","f","f"," ","-","-","g","i","t"," ","a","/","b",".","p","y"," ","b","/","b",".","p","y">>,
    <<"@","@"," ","-","1",",","3"," ","+","1",",","4"," ","@","@">>,
    <<"@","@"," ","-","a",",","b"," ","+","1",",","1"," ","@","@">>,
    <<" ","c","l","a","s","s"," ","F","o","o",":">>,
    <<"+"," "," "," "," ","d","e","f"," ","b","a","r","(","s","e","l","f",")",":"," ","p","a","s","s">>,
    <<" ">>,
    <<"-"," "," "," "," ","p","a","s","s">>,
    <<"+","+","+","x">>,
    <<"-","-","-","y">>,
    <<>>,
    <<"@","@"," ","-","1","0"," ","+","1","0"," ","@","@">>,
    <<"@","@"," ","-","1","0",",","1"," ","+","1","0",",","1"," ","@","@">>,
    <<" ","c","l","a","s","s"," ","B","a","r","(","B","a","s","e",")",":">>,
    <<"\\"," ","N","o"," ","n","e","w","l","i","n","e"," ","a","t"," ","e","n","d"," ","o","f"," ","f","i","l","e">>
>>

PoolIds == 1..Len(Pool)
PoolId(text) == CHOOSE p \in PoolIds : Pool[p] = text

\* the lines every diff text of up to MaxLen lines is composed of
CoreIds == 1..11

RECURSIVE SeqsOver(_, _)
SeqsOver(ids, n) ==
    IF n = 0 THEN {<<>>}
    ELSE LET shorter == SeqsOver(ids, n - 1) IN
         shorter \cup {Append(s, p) : s \in {t \in shorter : Len(t) = n - 1}, p \in ids}

SeqsUpTo(n) == SeqsOver(CoreIds, n)

Repeat(p, n) == [q \in 1..n |-> p]

\* spec.md section 8, scenario 6
ScenarioFoo == <<1, 3, 5, 6, 7, 8>>
\* one file with a change, then a second file whose hunk header is malformed
ScenarioTwoFiles == <<1, 6, 2, 4>>

\* a hunk header, then a class definition on the 19th and on the 20th line
\* after it
ScenarioClassAt19 == <<3>> \o Repeat(7, 18) \o <<5>>
ScenarioClassAt20 == <<3>> \o Repeat(7, 19) \o <<5>>
\* two class definitions in the context lines after a hunk header
ScenarioTwoClasses == <<3, 5, 14, 6>>
\* the marker git prints after a last line that has no newline
ScenarioNoNewline == <<1, 3, 7, 15, 6>>

Scenarios == {ScenarioFoo, ScenarioTwoFiles, ScenarioClassAt19, ScenarioClassAt20,
              ScenarioTwoClasses, ScenarioNoNewline}

\* the diff texts the model runs on, each given by the ids of its lines; the
\* text is these lines joined by newlines, the empty tuple is the empty text
DiffInputs == SeqsUpTo(MaxLen) \cup SeqsOver(PoolIds, MaxLenAll) \cup Scenarios

DiffText(ids) == Join([p \in 1..Len(ids) |-> Pool[ids[p]]], NL)

\* outputs of git diff-tree --name-only
NameOutputs == {<<>>, <<"f","o","o",".","p","y","\n","b",".","p","y","\n">>}


(* ----------------------------- state ----------------------------------- *)
VARIABLES
    variant,        \* which script's analyze_commit_changes runs
    diff_in,        \* ids of the lines of the text git diff prints
    names_out,      \* text git diff-tree --name-only prints
    pc,             \* position in analyze_commit_changes
    files_changed,  \* names_out.strip().split("\n")
    lines,          \* diff_output.split("\n"), as line ids
    k,              \* position of the counting loop
    i,              \* position of the extended while loop
    file_stats,     \* key -> summary record
    current_file, current_class, current_method,
    old_line_num, new_line_num,
    branch,         \* branch of the extended loop's if/elif chain taken last
    class_src,      \* position of the line current_class was read from, 0 for None
    last_header,    \* position of the last file or hunk header the loop handled
    result,         \* the returned dictionary, None until the return
    head,           \* where the working tree of the repository stands
    number,         \* commits the driver loop of repo_vul_files.py has finished
    driver_pc,      \* position in that driver loop
    copied          \* copies made into the snapshot directory of the current commit

vars == <<variant, diff_in, names_out, pc, files_changed, lines, k, i, file_stats,
          current_file, current_class, current_method, old_line_num, new_line_num,
          branch, class_src, last_header, result, head, number, driver_pc, copied>>

Variants == {"base", "extended"}

LineAt(p) == Pool[lines[p]]

(* ---------------------- line classification ---------------------------- *)
IsFileHeader(line) == StartsWith(line, <<"d","i","f","f"," ","-","-","g","i","t">>)
IsHunkHeader(line) == StartsWith(line, <<"@","@">>)
IsAddition(line) == StartsWith(line, <<"+">>) /\ ~StartsWith(line, <<"+","+","+">>)
IsDeletion(line) == StartsWith(line, <<"-">>) /\ ~StartsWith(line, <<"-","-","-">>)
IsContext(line) ==
    /\ ~StartsWith(line, <<"+">>)
    /\ ~StartsWith(line, <<"-">>)
    /\ ~StartsWith(line, <<"d","i","f","f">>)
    /\ ~StartsWith(line, <<"@","@">>)

\* line.split(" b/")[-1]
FilePath(line) == Last(Split(line, <<" ","b","/">>))

HasClassDef(line) == Contains(line, <<"c","l","a","s","s"," ">>) /\ Contains(line, <<":">>)
HasMethodDef(line) == Contains(line, <<"d","e","f"," ">>) /\ Contains(line, <<":">>)
ClassMatch(line) == Strip(Split(Split(Split(line, <<"c","l","a","s","s"," ">>)[2], <<"(">>)[1], <<":">>)[1])
MethodMatch(line) == Strip(Split(Split(line, <<"d","e","f"," ">>)[2], <<"(">>)[1])

\* truthiness of an optional string: None and "" are false
Truthy(o) == o # None /\ Get(o) # <<>>

(* ------------------------- error outcomes ------------------------------ *)
\* str(e) of the exception caught: a fixed text and the quoted operand
ErrValue(tok) == [text |-> "invalid literal for int() with base 10: ", repr |-> tok]
ErrIndex == [text |-> "list index out of range", repr |-> <<>>]
ErrKey(key) == [text |-> "", repr |-> key]
ErrGit == [text |-> "Command returned non-zero exit status", repr |-> <<>>]

\* an error outcome that also carries the summaries
ErrorResult_WithFiles(e) == Some([error |-> e, files |-> file_stats])

ErrorResult(e) == Some([error |-> e])
IsError(r) == r # None /\ "error" \in DOMAIN Get(r)

(* --------------------------- summaries --------------------------------- *)
DefaultStats == [additions |-> 0, deletions |-> 0, changes |-> 0]

\* file_stats[key] of a defaultdict: a missing key is created on access
Touch(fs, key) == IF key \in DOMAIN fs THEN fs ELSE fs @@ (key :> DefaultStats)

IncAdditions(fs, key) ==
    LET t == Touch(fs, key) IN
    [t EXCEPT ![key].additions = @ + 1, ![key].changes = @ + 1]

\* a deletion that is not added to changes
IncDeletions_NoChanges(fs, key) ==
    LET t == Touch(fs, key) IN
    [t EXCEPT ![key].deletions = @ + 1]

IncDeletions(fs, key) ==
    LET t == Touch(fs, key) IN
    [t EXCEPT ![key].deletions = @ + 1, ![key].changes = @ + 1]


(* ----------------------- hunk header handling -------------------------- *)
LookaheadLimit == 20

\* a parse that wants the length after the comma of each range
ParseHunk_NeedsLength(line) ==
    LET line_info == Strip(Split(line, <<"@","@">>)[2])
        line_numbers == Split(line_info, <<" ">>)
    IN  IF Len(line_numbers) < 2 THEN [ok |-> FALSE, err |-> ErrIndex]
        ELSE IF \/ Len(Split(line_numbers[1], <<",">>)) < 2
                \/ Len(Split(line_numbers[2], <<",">>)) < 2
        THEN [ok |-> FALSE, err |-> ErrIndex]
        ELSE LET old_tok == Split(line_numbers[1], <<",">>)[1]
                 new_tok == Split(line_numbers[2], <<",">>)[1]
             IN  IF ~ParseInt(old_tok).ok THEN [ok |-> FALSE, err |-> ErrValue(old_tok)]
                 ELSE IF ~ParseInt(new_tok).ok THEN [ok |-> FALSE, err |-> ErrValue(new_tok)]
                 ELSE [ok |-> TRUE, old |-> Abs(ParseInt(old_tok).val),
                       new |-> ParseInt(new_tok).val]

\* a parse that reads an unreadable start number as 0 and goes on
ParseHunk_Lenient(line) ==
    LET line_info == Strip(Split(line, <<"@","@">>)[2])
        line_numbers == Split(line_info, <<" ">>)
    IN  IF Len(line_numbers) < 2 THEN [ok |-> FALSE, err |-> ErrIndex]
        ELSE [ok |-> TRUE,
              old |-> Abs(ParseInt(Split(line_numbers[1], <<",">>)[1]).val),
              new |-> ParseInt(Split(line_numbers[2], <<",">>)[1]).val]

\* the two start numbers of "@@ -a,b +c,d @@", or the exception raised
ParseHunk(line) ==
    LET line_info == Strip(Split(line, <<"@","@">>)[2])
        line_numbers == Split(line_info, <<" ">>)
    IN  IF Len(line_numbers) < 2 THEN [ok |-> FALSE, err |-> ErrIndex]
        ELSE LET old_tok == Split(line_numbers[1], <<",">>)[1]
                 new_tok == Split(line_numbers[2], <<",">>)[1]
             IN  IF ~ParseInt(old_tok).ok THEN [ok |-> FALSE, err |-> ErrValue(old_tok)]
                 ELSE IF ~ParseInt(new_tok).ok THEN [ok |-> FALSE, err |-> ErrValue(new_tok)]
                 ELSE [ok |-> TRUE, old |-> Abs(ParseInt(old_tok).val),
                       new |-> ParseInt(new_tok).val]

\* a lookahead that reads one line more
LookaheadWindow_Twenty(p) == {q \in (p + 1)..(p + LookaheadLimit) : q <= Len(lines)}

\* positions the lookahead of the hunk header at position p reads
LookaheadWindow(p) == {q \in (p + 1)..(p + LookaheadLimit - 1) : q <= Len(lines)}

\* positions of context_lines that carry a class definition
LookaheadMatches(p) ==
    {q \in LookaheadWindow(p) :
        /\ ~StartsWith(LineAt(q), <<"+">>)
        /\ ~StartsWith(LineAt(q), <<"-">>)
        /\ HasClassDef(LineAt(q))}

\* a lookahead that stops at its first match
LookaheadSrc_First(p) ==
    IF LookaheadMatches(p) = {} THEN 0
    ELSE CHOOSE q \in LookaheadMatches(p) : \A r \in LookaheadMatches(p) : q <= r

\* the for loop assigns current_class at every match, so the last one stays
LookaheadSrc(p) ==
    IF LookaheadMatches(p) = {} THEN 0
    ELSE CHOOSE q \in LookaheadMatches(p) : \A r \in LookaheadMatches(p) : r <= q

\* a lookahead without the reset before it
LookaheadClass_NoReset(prev, p) ==
    IF LookaheadSrc(p) = 0 THEN prev ELSE Some(ClassMatch(LineAt(LookaheadSrc(p))))

\* current_class after the reset and the lookahead of the hunk header at p;
\* prev is its value before the header
LookaheadClass(prev, p) ==
    IF LookaheadSrc(p) = 0 THEN None ELSE Some(ClassMatch(LineAt(LookaheadSrc(p))))

(* ------------------------ recording a change --------------------------- *)
OrElse(o, dflt) == IF Truthy(o) THEN Get(o) ELSE dflt

ClassMethodKey(cls, mth) == OrElse(cls, <<"U","n","k","n","o","w","n">>) \o <<":",":">> \o OrElse(mth, <<"g","l","o","b","a","l">>)

\* the appends to line_changes and class_method_changes of one change line;
\* a summary record without the list raises KeyError
RecordChange(fs, key, kind, num, line, cls, mth) ==
    IF "line_changes" \notin DOMAIN fs[key]
    THEN [ok |-> FALSE, err |-> ErrKey(<<"l","i","n","e","_","c","h","a","n","g","e","s">>), fs |-> fs]
    ELSE LET change_info == [type |-> kind, line_number |-> num, content |-> Tail(line),
                             class |-> cls, method |-> mth]
             fs1 == [fs EXCEPT ![key].line_changes = Append(@, change_info)]
         IN  IF ~(Truthy(cls) \/ Truthy(mth)) THEN [ok |-> TRUE, fs |-> fs1]
             ELSE IF "class_method_changes" \notin DOMAIN fs1[key]
             THEN [ok |-> FALSE, err |-> ErrKey(<<"c","l","a","s","s","_","m","e","t","h","o","d","_","c","h","a","n","g","e","s">>), fs |-> fs1]
             ELSE [ok |-> TRUE,
                   fs |-> [fs1 EXCEPT ![key].class_method_changes =
                             Append(@, [class |-> cls, method |-> mth,
                                        key |-> ClassMethodKey(cls, mth),
                                        line |-> num, type |-> kind,
                                        content |-> Tail(line)])]]

(* ----------------------------- Init ------------------------------------ *)
Init ==
    /\ variant \in Variants
    /\ diff_in \in DiffInputs
    /\ names_out \in NameOutputs
    /\ pc = "git"
    /\ files_changed = <<>>
    /\ lines = <<>>
    /\ k = 1
    /\ i = 1
    /\ file_stats = <<>>
    /\ current_file = None
    /\ current_class = None
    /\ current_method = None
    /\ old_line_num = None
    /\ new_line_num = None
    /\ branch = "unset"
    /\ class_src = 0
    /\ last_header = 0
    /\ result = None
    /\ head = "elsewhere"
    /\ number = 0
    /\ driver_pc = "analysis"
    /\ copied = {}

driverState == <<head, number, driver_pc, copied>>
inputs == <<variant, diff_in, names_out>>
scanState == <<current_class, current_method, old_line_num, new_line_num,
               branch, class_src, last_header, i>>

(* ------------------- git commands and the counting loop ---------------- *)
\* checkout, show, diff-tree, diff --stat and diff; any of them may fail
GitCommands ==
    /\ pc = "git"
    /\ \/ /\ pc' = "count"
          /\ head' = "commit"
          /\ files_changed' = SplitLines(Strip(names_out))
          /\ lines' = LET parts == SplitLines(DiffText(diff_in))
                      IN  [p \in 1..Len(parts) |-> PoolId(parts[p])]
          /\ file_stats' = <<>>
          /\ current_file' = None
          /\ k' = 1
          /\ UNCHANGED result
       \/ /\ pc' = "done"
          /\ result' = ErrorResult(ErrGit)
          /\ head' \in {head, "commit"}
          /\ UNCHANGED <<files_changed, lines, file_stats, current_file, k>>
    /\ UNCHANGED <<inputs, number, driver_pc, copied, scanState>>

CountFileHeader ==
    /\ pc = "count" /\ k <= Len(lines)
    /\ IsFileHeader(LineAt(k))
    /\ current_file' = Some(FilePath(LineAt(k)))
    /\ k' = k + 1
    /\ UNCHANGED <<inputs, driverState, scanState, pc, files_changed, lines, file_stats, result>>

CountAddition ==
    /\ pc = "count" /\ k <= Len(lines)
    /\ ~IsFileHeader(LineAt(k))
    /\ IsAddition(LineAt(k))
    /\ file_stats' = IncAdditions(file_stats, current_file)
    /\ k' = k + 1
    /\ UNCHANGED <<inputs, driverState, scanState, pc, files_changed, lines, current_file, result>>

CountDeletion ==
    /\ pc = "count" /\ k <= Len(lines)
    /\ ~IsFileHeader(LineAt(k))
    /\ ~IsAddition(LineAt(k))
    /\ IsDeletion(LineAt(k))
    /\ file_stats' = IncDeletions(file_stats, current_file)
    /\ k' = k + 1
    /\ UNCHANGED <<inputs, driverState, scanState, pc, files_changed, lines, current_file, result>>

CountOther ==
    /\ pc = "count" /\ k <= Len(lines)
    /\ ~IsFileHeader(LineAt(k))
    /\ ~IsAddition(LineAt(k))
    /\ ~IsDeletion(LineAt(k))
    /\ k' = k + 1
    /\ UNCHANGED <<inputs, driverState, scanState, pc, files_changed, lines, file_stats,
                   current_file, result>>

\* git show --format=%ci after the counting loop; the extended script then
\* initialises its second loop
DateReadable ==
    /\ pc = "count" /\ k > Len(lines)
    /\ \/ /\ variant = "base"
          /\ pc' = "assemble"
          /\ UNCHANGED <<current_file, scanState, result>>
       \/ /\ variant = "extended"
          /\ pc' = "scan"
          /\ current_file' = None
          /\ current_class' = None
          /\ current_method' = None
          /\ old_line_num' = None
          /\ new_line_num' = None
          /\ i' = 1
          /\ UNCHANGED <<branch, class_src, last_header, result>>
       \/ /\ pc' = "done"
          /\ result' = ErrorResult(ErrGit)
          /\ UNCHANGED <<current_file, scanState>>
    /\ UNCHANGED <<inputs, driverState, files_changed, lines, k, file_stats>>


(* ---------------------- the extended while loop ------------------------ *)
Scanning == pc = "scan" /\ i <= Len(lines)

Bump(cursor) == IF cursor # None THEN Some(Get(cursor) + 1) ELSE cursor

\* the except clause: the loop is left and only the message is returned
Raise(e) ==
    /\ pc' = "done"
    /\ result' = ErrorResult(e)
    /\ i' = i

ScanFileHeader ==
    /\ Scanning
    /\ IsFileHeader(LineAt(i))
    /\ current_file' = Some(FilePath(LineAt(i)))
    /\ current_class' = None
    /\ current_method' = None
    /\ class_src' = 0
    /\ last_header' = i
    /\ branch' = "file_header"
    /\ i' = i + 1
    /\ UNCHANGED <<inputs, driverState, pc, files_changed, lines, k, file_stats,
                   old_line_num, new_line_num, result>>

ScanHunkHeader ==
    /\ Scanning
    /\ ~IsFileHeader(LineAt(i))
    /\ IsHunkHeader(LineAt(i))
    /\ branch' = "hunk_header"
    /\ LET h == ParseHunk(LineAt(i)) IN
       IF h.ok
       THEN /\ old_line_num' = Some(h.old)
            /\ new_line_num' = Some(h.new)
            /\ current_class' = LookaheadClass(current_class, i)
            /\ current_method' = None
            /\ class_src' = LookaheadSrc(i)
            /\ last_header' = i
            /\ i' = i + 1
            /\ UNCHANGED <<pc, result>>
       ELSE /\ Raise(h.err)
            /\ UNCHANGED <<old_line_num, new_line_num, current_class, current_method,
                           class_src, last_header>>
    /\ UNCHANGED <<inputs, driverState, files_changed, lines, k, file_stats, current_file>>

ScanAddition ==
    /\ Scanning
    /\ ~IsFileHeader(LineAt(i))
    /\ ~IsHunkHeader(LineAt(i))
    /\ IsAddition(LineAt(i))
    /\ branch' = "addition"
    /\ LET counted == IncAdditions(file_stats, current_file)
           rec == RecordChange(counted, current_file, "addition", Get(new_line_num),
                               LineAt(i), current_class, current_method)
       IN  IF new_line_num = None
           THEN /\ file_stats' = counted
                /\ i' = i + 1
                /\ UNCHANGED <<new_line_num, pc, result>>
           ELSE IF rec.ok
           THEN /\ file_stats' = rec.fs
                /\ new_line_num' = Bump(new_line_num)
                /\ i' = i + 1
                /\ UNCHANGED <<pc, result>>
           ELSE /\ file_stats' = rec.fs
                /\ Raise(rec.err)
                /\ UNCHANGED new_line_num
    /\ UNCHANGED <<inputs, driverState, files_changed, lines, k, current_file, current_class,
                   current_method, old_line_num, class_src, last_header>>

ScanDeletion ==
    /\ Scanning
    /\ ~IsFileHeader(LineAt(i))
    /\ ~IsHunkHeader(LineAt(i))
    /\ ~IsAddition(LineAt(i))
    /\ IsDeletion(LineAt(i))
    /\ branch' = "deletion"
    /\ LET counted == IncDeletions(file_stats, current_file)
           rec == RecordChange(counted, current_file, "deletion", Get(old_line_num),
                               LineAt(i), current_class, current_method)
       IN  IF old_line_num = None
           THEN /\ file_stats' = counted
                /\ i' = i + 1
                /\ UNCHANGED <<old_line_num, pc, result>>
           ELSE IF rec.ok
           THEN /\ file_stats' = rec.fs
                /\ old_line_num' = Bump(old_line_num)
                /\ i' = i + 1
                /\ UNCHANGED <<pc, result>>
           ELSE /\ file_stats' = rec.fs
                /\ Raise(rec.err)
                /\ UNCHANGED old_line_num
    /\ UNCHANGED <<inputs, driverState, files_changed, lines, k, current_file, current_class,
                   current_method, new_line_num, class_src, last_header>>

ScanContext ==
    /\ Scanning
    /\ ~IsFileHeader(LineAt(i))
    /\ ~IsHunkHeader(LineAt(i))
    /\ ~IsAddition(LineAt(i))
    /\ ~IsDeletion(LineAt(i))
    /\ IsContext(LineAt(i))
    /\ branch' = "context"
    /\ old_line_num' = Bump(old_line_num)
    /\ new_line_num' = Bump(new_line_num)
    /\ current_class' = IF HasClassDef(LineAt(i)) THEN Some(ClassMatch(LineAt(i)))
                        ELSE current_class
    /\ class_src' = IF HasClassDef(LineAt(i)) THEN i ELSE class_src
    /\ current_method' = IF HasMethodDef(LineAt(i)) THEN Some(MethodMatch(LineAt(i)))
                         ELSE current_method
    /\ i' = i + 1
    /\ UNCHANGED <<inputs, driverState, pc, files_changed, lines, k, file_stats, current_file,
                   last_header, result>>

\* no branch of the if/elif chain matches: only i += 1 runs
ScanNoBranch ==
    /\ Scanning
    /\ ~IsFileHeader(LineAt(i))
    /\ ~IsHunkHeader(LineAt(i))
    /\ ~IsAddition(LineAt(i))
    /\ ~IsDeletion(LineAt(i))
    /\ ~IsContext(LineAt(i))
    /\ branch' = "none"
    /\ i' = i + 1
    /\ UNCHANGED <<inputs, driverState, pc, files_changed, lines, k, file_stats, current_file,
                   current_class, current_method, old_line_num, new_line_num,
                   class_src, last_header, result>>

\* the result dictionary and the return
Assemble ==
    /\ \/ pc = "assemble"
       \/ pc = "scan" /\ i > Len(lines)
    /\ pc' = "done"
    /\ result' = Some([files |-> file_stats, files_list |-> files_changed,
                       full_diff |-> diff_in])
    /\ UNCHANGED <<inputs, driverState, files_changed, lines, k, file_stats, current_file, scanState>>

(* --------------- the driver loop of repo_vul_files.py ------------------ *)
\* the loop leaves after this many commits
DriverLimit == 2

\* git checkout HEAD^ from a working tree at h
ParentOf(h) == IF h = "commit" THEN "parent" ELSE "elsewhere"

\* a checkout of HEAD^ whose failure is not raised
ParentCheckout_Unchecked(h) ==
    {[ok |-> TRUE, head |-> ParentOf(h)], [ok |-> TRUE, head |-> h]}

\* subprocess.run(git checkout HEAD^, check=True): done, or failed and raised
ParentCheckout(h) ==
    {[ok |-> TRUE, head |-> ParentOf(h)], [ok |-> FALSE, head |-> h]}

\* the keys of analysis['files'] in insertion order: a key is inserted at the
\* first change line of its section
RECURSIVE KeysInOrder(_)
KeysInOrder(n) ==
    IF n = 0 THEN <<>>
    ELSE LET prev == KeysInOrder(n - 1)
             key == IF \E q \in 1..(n - 1) : IsFileHeader(LineAt(q))
                    THEN Some(FilePath(LineAt(
                           CHOOSE q \in 1..(n - 1) :
                              /\ IsFileHeader(LineAt(q))
                              /\ \A r \in (q + 1)..(n - 1) : ~IsFileHeader(LineAt(r)))))
                    ELSE None
         IN  IF /\ ~IsFileHeader(LineAt(n))
                /\ IsAddition(LineAt(n)) \/ IsDeletion(LineAt(n))
                /\ \A q \in 1..Len(prev) : prev[q] # key
             THEN Append(prev, key) ELSE prev

IsValidFile(key) == Contains(Get(key), <<".","p","y">>) /\ ~Contains(Get(key), <<"t","e","s","t">>)

\* valid_files_fix of postprocessing
ValidFiles == SelectSeq(KeysInOrder(Len(lines)), IsValidFile)

\* the checkout of HEAD^ after analyze_commit_changes has returned; a failure
\* is not caught and ends the script
DriverCheckoutParent ==
    /\ variant = "base" /\ pc = "done" /\ driver_pc = "analysis"
    /\ \E o \in ParentCheckout(head) :
          /\ head' = o.head
          /\ driver_pc' = IF o.ok THEN "postprocessing" ELSE "crashed"
    /\ UNCHANGED <<inputs, pc, files_changed, lines, k, file_stats, current_file,
                   scanState, result, number, copied>>

\* postprocessing: analysis['files'] of an error outcome raises KeyError, the
\* key None raises TypeError in the filter, copyfile may raise at any file
DriverPostprocessing ==
    /\ variant = "base" /\ pc = "done" /\ driver_pc = "postprocessing"
    /\ IF IsError(result) \/ None \in DOMAIN Get(result).files
       THEN /\ driver_pc' = "crashed"
            /\ UNCHANGED <<copied, number>>
       ELSE \E n \in 0..Len(ValidFiles) :
               /\ copied' = copied \cup
                     {[path |-> Get(ValidFiles[q]), head |-> head] : q \in 1..n}
               /\ IF n < Len(ValidFiles)
                  THEN driver_pc' = "crashed" /\ UNCHANGED number
                  ELSE driver_pc' = "next" /\ number' = number + 1
    /\ UNCHANGED <<inputs, pc, files_changed, lines, k, file_stats, current_file,
                   scanState, result, head>>

\* diff texts of the commits after the first: empty, one file, a change
\* before any file header, two files
NextDiffInputs == {<<>>, <<1, 6>>, <<6>>, <<1, 6, 2, 8>>}

\* the break after DriverLimit commits, the end of repos_fixes, or the next
\* repository: clone_repo and a new call of analyze_commit_changes
DriverNextRepo ==
    /\ variant = "base" /\ pc = "done" /\ driver_pc = "next"
    /\ \/ /\ driver_pc' = "finished"
          /\ UNCHANGED <<diff_in, pc, files_changed, lines, k, file_stats, current_file,
                         result, head, copied>>
       \/ /\ number < DriverLimit
          /\ driver_pc' = "analysis"
          /\ diff_in' \in NextDiffInputs
          /\ pc' = "git"
          /\ files_changed' = <<>>
          /\ lines' = <<>>
          /\ k' = 1
          /\ file_stats' = <<>>
          /\ current_file' = None
          /\ result' = None
          /\ head' = "elsewhere"
          /\ copied' = {}
    /\ UNCHANGED <<variant, names_out, scanState, number>>

Next ==
    \/ GitCommands
    \/ CountFileHeader
    \/ CountAddition
    \/ CountDeletion
    \/ CountOther
    \/ DateReadable
    \/ ScanFileHeader
    \/ ScanHunkHeader
    \/ ScanAddition
    \/ ScanDeletion
    \/ ScanContext
    \/ ScanNoBranch
    \/ Assemble
    \/ DriverCheckoutParent
    \/ DriverPostprocessing
    \/ DriverNextRepo

Spec == Init /\ [][Next]_vars


(* ============================= claims ================================== *)
Done == pc = "done"
GitFailed == IsError(result) /\ Get(result).error = ErrGit
Returned == result # None /\ "files" \in DOMAIN Get(result)

\* the extended loop raised at line i
RaisedInScan == Done /\ variant = "extended" /\ IsError(result) /\ ~GitFailed

WellFormedHunks ==
    \A p \in 1..Len(lines) : IsHunkHeader(LineAt(p)) => ParseHunk(LineAt(p)).ok

IsChange(line) == ~IsFileHeader(line) /\ ~IsHunkHeader(line) /\ (IsAddition(line) \/ IsDeletion(line))

CountType(changes, kind) == Cardinality({n \in 1..Len(changes) : changes[n].type = kind})

\* C1: for the diff of spec.md section 8 scenario 6 the extended classifier
\* returns a mapping whose foo.py entry has additions 1, deletions 1,
\* changes 2, one addition record at line 2 in class Foo and one deletion
\* record at line 3.
C1_FooScenario ==
    (Done /\ variant = "extended" /\ diff_in = ScenarioFoo /\ ~GitFailed) =>
        /\ Returned
        /\ Some(<<"f","o","o",".","p","y">>) \in DOMAIN Get(result).files
        /\ LET foo == Get(result).files[Some(<<"f","o","o",".","p","y">>)] IN
           /\ foo.additions = 1 /\ foo.deletions = 1 /\ foo.changes = 2
           /\ "line_changes" \in DOMAIN foo
           /\ Len(foo.line_changes) = 2
           /\ \E n \in 1..2 : /\ foo.line_changes[n].type = "addition"
                              /\ foo.line_changes[n].line_number = 2
                              /\ foo.line_changes[n].class = Some(<<"F","o","o">>)
           /\ \E n \in 1..2 : /\ foo.line_changes[n].type = "deletion"
                              /\ foo.line_changes[n].line_number = 3

\* C2: in both classifiers, after any number of processed lines, every
\* summary has additions + deletions = changes; so has every returned one.
C2_CountsSum ==
    /\ \A key \in DOMAIN file_stats :
          file_stats[key].additions + file_stats[key].deletions = file_stats[key].changes
    /\ Returned =>
          \A key \in DOMAIN Get(result).files :
             LET s == Get(result).files[key] IN s.additions + s.deletions = s.changes

C2_Witness ==
    /\ variant = "extended" /\ pc = "scan" /\ i > 1
    /\ \E key \in DOMAIN file_stats :
          file_stats[key].additions >= 2 /\ file_stats[key].deletions >= 1

\* C3: for a diff whose change lines all follow a (well-formed) hunk header
\* the extended classifier returns a mapping in which every file's additions
\* and deletions equal the numbers of its addition and deletion records.
C3_CountsMatchRecords ==
    (/\ Done /\ variant = "extended" /\ ~GitFailed
     /\ WellFormedHunks
     /\ \A p \in 1..Len(lines) :
           IsChange(LineAt(p)) => \E q \in 1..(p - 1) : IsHunkHeader(LineAt(q))) =>
        /\ Returned
        /\ \A key \in DOMAIN Get(result).files :
              LET s == Get(result).files[key] IN
              /\ "line_changes" \in DOMAIN s
              /\ s.additions = CountType(s.line_changes, "addition")
              /\ s.deletions = CountType(s.line_changes, "deletion")

\* C4: every line that is neither a diff --git line nor an @@ line is handled
\* by the addition, the deletion or the context branch of the extended loop,
\* lines beginning with +++ or --- included.
C4_Totality ==
    [][(Scanning /\ ~IsFileHeader(LineAt(i)) /\ ~IsHunkHeader(LineAt(i))) =>
          branch' \in {"addition", "deletion", "context"}]_vars

\* C5: with both cursors set, one line of the extended loop advances
\* old_line_num by 1 exactly on a deletion or context line and new_line_num
\* by 1 exactly on an addition or context line; the diff --git line and the
\* ---/+++ lines advance neither.
C5_CursorSteps ==
    [][(Scanning /\ old_line_num # None /\ new_line_num # None
                 /\ ~IsHunkHeader(LineAt(i))) =>
          LET line == LineAt(i)
              header == \/ IsFileHeader(line)
                        \/ StartsWith(line, <<"+","+","+">>)
                        \/ StartsWith(line, <<"-","-","-">>)
              add == ~header /\ StartsWith(line, <<"+">>)
              del == ~header /\ StartsWith(line, <<"-">>)
              ctx == ~header /\ ~add /\ ~del
          IN  /\ old_line_num' = Some(Get(old_line_num) + IF del \/ ctx THEN 1 ELSE 0)
              /\ new_line_num' = Some(Get(new_line_num) + IF add \/ ctx THEN 1 ELSE 0)]_vars

\* C6: current_class is None once a diff --git line is handled; after an @@
\* line it is None unless a later line carries a class definition; a class
\* held at any time was read from a line after the last header handled.
C6_ClassReset ==
    /\ branch = "file_header" => current_class = None
    /\ (/\ branch = "hunk_header" /\ ~IsError(result)
        /\ \A q \in (last_header + 1)..Len(lines) : ~HasClassDef(LineAt(q))) =>
          current_class = None
    /\ current_class # None => class_src > last_header

C6_Witness ==
    /\ branch \in {"file_header", "hunk_header"} /\ ~IsError(result)
    /\ current_class = None
    /\ last_header > 2
    /\ IsContext(LineAt(last_header - 1)) /\ HasClassDef(LineAt(last_header - 1))
    /\ \E q \in 1..(last_header - 2) : IsHunkHeader(LineAt(q))

\* start-number fields of the two ranges of a hunk header with two ranges
HunkTokens(line) ==
    LET line_numbers == Split(Strip(Split(line, <<"@","@">>)[2]), <<" ">>)
    IN  IF Len(line_numbers) < 2 THEN {}
        ELSE {Split(line_numbers[1], <<",">>)[1], Split(line_numbers[2], <<",">>)[1]}

NonNumericHunk(line) ==
    IsHunkHeader(line) /\ \E tok \in HunkTokens(line) : ~ParseInt(tok).ok

EarlierFileSummarised ==
    /\ current_file # None
    /\ \E q1 \in 1..i, q2 \in 1..i :
          /\ q1 < q2 /\ q2 < i
          /\ IsFileHeader(LineAt(q1)) /\ IsFileHeader(LineAt(q2))
          /\ Some(FilePath(LineAt(q2))) = current_file
          /\ Some(FilePath(LineAt(q1))) # current_file
          /\ Some(FilePath(LineAt(q1))) \in DOMAIN file_stats

\* C8 (as stated): when the extended loop raises in a later file, the
\* summaries of the earlier files are part of the returned outcome, unchanged.
C8_SummariesReturned ==
    (RaisedInScan /\ EarlierFileSummarised) =>
        /\ "files" \in DOMAIN Get(result)
        /\ \A key \in DOMAIN file_stats \ {current_file} :
              /\ key \in DOMAIN Get(result).files
              /\ Get(result).files[key] = file_stats[key]

\* C8 (amended): the step on which the extended loop raises leaves the
\* summaries of the other files unchanged, and the returned outcome holds
\* the error message and nothing else.
C8_ErrorOnlyOutcome ==
    [][(Scanning /\ pc' = "done" /\ IsError(result')) =>
          /\ DOMAIN Get(result') = {"error"}
          /\ \A key \in DOMAIN file_stats \ {current_file} :
                key \in DOMAIN file_stats' /\ file_stats'[key] = file_stats[key]]_vars

C8_Witness ==
    /\ RaisedInScan /\ branch = "hunk_header"
    /\ EarlierFileSummarised
    /\ DOMAIN Get(result) = {"error"}

\* C9: when an addition or deletion line comes before any diff --git line
\* (and every hunk header is well formed), the classifier returns a mapping,
\* not an error, and the mapping has the key None.
C9_SentinelBucket ==
    (/\ Done /\ ~GitFailed /\ WellFormedHunks
     /\ \E p \in 1..Len(lines) :
           /\ IsChange(LineAt(p))
           /\ \A q \in 1..(p - 1) : ~IsFileHeader(LineAt(q))) =>
        /\ Returned
        /\ None \in DOMAIN Get(result).files

\* C10: for an empty diff text and an empty name output both classifiers
\* return a mapping with no file and the file list [""].
C10_EmptyDiff ==
    (Done /\ diff_in = <<>> /\ names_out = <<>> /\ ~GitFailed) =>
        /\ Returned
        /\ DOMAIN Get(result).files = {}
        /\ Get(result).files_list = << <<>> >>

C10_Witness ==
    /\ Done /\ diff_in = <<>> /\ names_out = <<>> /\ variant = "extended"
    /\ Returned
    /\ lines = <<PoolId(<<>>)>>
    /\ branch = "context"


\* C11: a hunk header without lengths, "@@ -10 +10 @@", is read without error
\* and sets both cursors to 10, as the header "@@ -10,1 +10,1 @@" does.
C11_NoLengthHeader ==
    [][(Scanning /\ LineAt(i) \in {<<"@","@"," ","-","1","0"," ","+","1","0"," ","@","@">>, <<"@","@"," ","-","1","0",",","1"," ","+","1","0",",","1"," ","@","@">>}) =>
          /\ pc' = "scan"
          /\ result' = None
          /\ old_line_num' = Some(10)
          /\ new_line_num' = Some(10)]_vars

C11_Witness ==
    /\ pc = "scan" /\ branch = "hunk_header" /\ i > 1
    /\ LineAt(i - 1) = <<"@","@"," ","-","1","0"," ","+","1","0"," ","@","@">>
    /\ old_line_num = Some(10) /\ new_line_num = Some(10)

\* the hunk header at last_header has just been handled
JustAfterHunk ==
    /\ pc = "scan" /\ branch = "hunk_header" /\ last_header > 0 /\ i = last_header + 1
    /\ IsHunkHeader(LineAt(last_header))

\* positions among the n lines after position p that start with neither + nor -
\* and carry a class definition
ClassLinesAfter(p, n) ==
    {q \in (p + 1)..(p + n) :
        /\ q <= Len(lines)
        /\ ~StartsWith(LineAt(q), <<"+">>)
        /\ ~StartsWith(LineAt(q), <<"-">>)
        /\ HasClassDef(LineAt(q))}

FirstOf(ps) == CHOOSE q \in ps : \A r \in ps : q <= r
LastOf(ps) == CHOOSE q \in ps : \A r \in ps : r <= q

\* C12 (as stated): the lookahead of a hunk header reads the 20 lines after
\* it, so a class definition on any of them, the 20th included, sets the
\* enclosing class.
C12_TwentyLines ==
    (JustAfterHunk /\ ClassLinesAfter(last_header, 20) # {}) => current_class # None

\* C12 (amended): the lookahead of a hunk header at position p reads the 19
\* lines p+1..p+19 (fewer at the end of the input); the enclosing class is set
\* exactly when one of them starts with neither + nor - and carries a class
\* definition, and the main loop goes on at p+1.
C12_NineteenLines ==
    JustAfterHunk =>
        /\ current_class # None <=> ClassLinesAfter(last_header, 19) # {}
        /\ current_class # None => class_src \in ClassLinesAfter(last_header, 19)

C12_Witness ==
    /\ JustAfterHunk
    /\ current_class = None
    /\ last_header + 20 <= Len(lines)
    /\ ClassLinesAfter(last_header, 20) = {last_header + 20}

\* C13 (as stated): with two or more class definitions in the lookahead
\* window the enclosing class is the name on the first of these lines.
C13_FirstMatch ==
    (JustAfterHunk /\ Cardinality(ClassLinesAfter(last_header, 19)) >= 2) =>
        current_class = Some(ClassMatch(LineAt(FirstOf(ClassLinesAfter(last_header, 19)))))

\* C13 (amended): with two or more class definitions in the lookahead window
\* the enclosing class is the name on the last of these lines.
C13_LastMatch ==
    (JustAfterHunk /\ Cardinality(ClassLinesAfter(last_header, 19)) >= 2) =>
        current_class = Some(ClassMatch(LineAt(LastOf(ClassLinesAfter(last_header, 19)))))

C13_Witness ==
    /\ JustAfterHunk
    /\ Cardinality(ClassLinesAfter(last_header, 19)) >= 2
    /\ ClassMatch(LineAt(FirstOf(ClassLinesAfter(last_header, 19)))) = <<"F","o","o">>
    /\ current_class = Some(<<"B","a","r">>)


\* the class/method change list of a summary, empty when there is none
ClassMethodChanges(fs, key) ==
    IF key \in DOMAIN fs /\ "class_method_changes" \in DOMAIN fs[key]
    THEN fs[key].class_method_changes ELSE <<>>

LineChanges(fs, key) ==
    IF key \in DOMAIN fs /\ "line_changes" \in DOMAIN fs[key]
    THEN fs[key].line_changes ELSE <<>>

\* C14: a change line met with its cursor set is recorded as a LineChange;
\* when a class or a method is known it also appends one entry with the key
\* "<class or Unknown>::<method or global>" and the same line number, type
\* and content to the class/method change list, and no entry otherwise.
C14_ClassMethodEntry ==
    [][(/\ Scanning /\ IsChange(LineAt(i))
        /\ IF IsAddition(LineAt(i)) THEN new_line_num # None ELSE old_line_num # None) =>
          LET kind == IF IsAddition(LineAt(i)) THEN "addition" ELSE "deletion"
              num == IF IsAddition(LineAt(i)) THEN Get(new_line_num) ELSE Get(old_line_num)
              known == Truthy(current_class) \/ Truthy(current_method)
              before == ClassMethodChanges(file_stats, current_file)
              after == ClassMethodChanges(file_stats', current_file)
              recorded == LineChanges(file_stats', current_file)
          IN  /\ Len(recorded) = Len(LineChanges(file_stats, current_file)) + 1
              /\ Last(recorded).type = kind
              /\ Last(recorded).line_number = num
              /\ Last(recorded).content = Tail(LineAt(i))
              /\ ~known => after = before
              /\ known =>
                   /\ Len(after) = Len(before) + 1
                   /\ SubSeq(after, 1, Len(before)) = before
                   /\ Last(after).key =
                        (IF Truthy(current_class) THEN Get(current_class) ELSE <<"U","n","k","n","o","w","n">>)
                        \o <<":",":">> \o
                        (IF Truthy(current_method) THEN Get(current_method) ELSE <<"g","l","o","b","a","l">>)
                   /\ Last(after).line = num
                   /\ Last(after).type = kind
                   /\ Last(after).content = Tail(LineAt(i))]_vars

\* C15: the class the lookahead of a hunk header assigns was read from a line
\* of that hunk: no diff --git line and no @@ line lies between the header
\* and the line the class was read from.
C15_SameHunkClass ==
    (JustAfterHunk /\ current_class # None) =>
        \A q \in (last_header + 1)..class_src :
            ~IsFileHeader(LineAt(q)) /\ ~IsHunkHeader(LineAt(q))

\* the file key in force at position p: the path of the last diff --git line
\* before p, None when there is none
SectionKey(p) ==
    LET hs == {q \in 1..(p - 1) : IsFileHeader(LineAt(q))} IN
    IF hs = {} THEN None ELSE Some(FilePath(LineAt(LastOf(hs))))

AdditionLinesOf(key) ==
    {p \in 1..Len(lines) : ~IsFileHeader(LineAt(p)) /\ IsAddition(LineAt(p)) /\ SectionKey(p) = key}

DeletionLinesOf(key) ==
    {p \in 1..Len(lines) : ~IsFileHeader(LineAt(p)) /\ IsDeletion(LineAt(p)) /\ SectionKey(p) = key}

\* the counters of a returned mapping are the numbers of + lines (not +++)
\* and of - lines (not ---) of each file's section, which is what the base
\* script reports
CountsAreLineCounts ==
    \A key \in DOMAIN Get(result).files :
        LET s == Get(result).files[key] IN
        /\ s.additions = Cardinality(AdditionLinesOf(key))
        /\ s.deletions = Cardinality(DeletionLinesOf(key))
        /\ s.changes = Cardinality(AdditionLinesOf(key)) + Cardinality(DeletionLinesOf(key))

\* C16: the counters the extended classifier reports are those of the base
\* classifier on the same diff text: the numbers of + and - lines per section.
C16_SameCounts ==
    (Done /\ variant = "extended" /\ Returned) => CountsAreLineCounts

\* the hunk header in force at position p, 0 when there is none
HunkOf(p) ==
    LET hs == {q \in 1..(p - 1) : IsHunkHeader(LineAt(q)) /\ ~IsFileHeader(LineAt(q))} IN
    IF hs = {} THEN 0 ELSE LastOf(hs)

IsMarker(line) == StartsWith(line, <<"\\">>)
InPostImage(line) == IsAddition(line) \/ StartsWith(line, <<" ">>)
InPreImage(line) == IsDeletion(line) \/ StartsWith(line, <<" ">>)

\* the lines between the hunk header and position p are change lines,
\* space-prefixed context lines and "\ ..." marker lines only
PlainHunkBefore(p) ==
    /\ HunkOf(p) > 0
    /\ \A q \in (HunkOf(p) + 1)..(p - 1) :
          InPostImage(LineAt(q)) \/ InPreImage(LineAt(q)) \/ IsMarker(LineAt(q))

\* C17: at an addition line of a hunk new_line_num is the hunk's post-image
\* start plus the number of earlier lines of the hunk that are in the
\* post-image, and likewise old_line_num at a deletion line; "\ ..." marker
\* lines do not count.
C17_CursorIsLineNumber ==
    (Scanning /\ IsChange(LineAt(i)) /\ PlainHunkBefore(i)) =>
        LET h == HunkOf(i)
            between == (h + 1)..(i - 1)
        IN  IF IsAddition(LineAt(i))
            THEN new_line_num = Some(ParseHunk(LineAt(h)).new
                     + Cardinality({q \in between : InPostImage(LineAt(q))}))
            ELSE old_line_num = Some(ParseHunk(LineAt(h)).old
                     + Cardinality({q \in between : InPreImage(LineAt(q))}))

\* the counting loop of the base script does report the line counts
BaseCountsAreLineCounts ==
    (Done /\ variant = "base" /\ Returned) => CountsAreLineCounts


\* C18: in the driver loop of repo_vul_files.py every copy into the snapshot
\* directory of a commit is made after analyze_commit_changes returned a
\* mapping for that commit and the checkout of HEAD^ succeeded, with the
\* working tree at the parent of the analysed commit; after an error outcome
\* or a failed checkout nothing is copied for that commit.
C18_CopyAtParent ==
    /\ \A c \in copied :
          /\ c.head = "parent"
          /\ variant = "base" /\ pc = "done" /\ Returned
          /\ driver_pc \in {"postprocessing", "next", "finished", "crashed"}
          /\ Some(c.path) \in DOMAIN Get(result).files
    /\ (IsError(result) \/ head # "parent") => copied = {}

C18_Witness ==
    /\ number = 1 /\ driver_pc = "crashed" /\ Returned /\ head = "parent"
    /\ copied = {[path |-> <<"f","o","o",".","p","y">>, head |-> "parent"]}
    /\ Cardinality(DOMAIN Get(result).files) = 2

====
